---- MODULE Spec2Model ----
(***************************************************************************)
(* A model of the mlx90640 package: the Frame value type (frame.py) and    *)
(* the Alert evaluation state machine (alert.py), the surface search of    *)
(* frame.py and utils.py, the config cache of utils.py and the capture     *)
(* loop of driver.py.                                                      *)
(*                                                                         *)
(* Samples are Python floats.  They are modelled as exact rationals        *)
(* [num, den] in lowest terms with den > 0, so that sum(lst) / len(lst)    *)
(* and the comparisons made on it are computed, not approximated.          *)
(***************************************************************************)
EXTENDS Integers, Sequences, FiniteSets, TLC

VARIABLES
    alert,      \* the Alert object: its thresholds, callbacks and trigger history
    lastOp,     \* the last call made on the alert, its inputs and its outcome
    cause,      \* what the most recent evaluate() that triggered computed
    frame,      \* the Frame the caller currently holds
    fop,        \* the last Frame method called on it, with its arguments
    result,     \* what that call returned or raised
    chain,      \* how many results the caller has adopted as its frame
    sequence,   \* the list of samples handed to the surface search
    sop,        \* the last surface method called on it, its arguments and outcome
    spot,       \* the last search for the hottest spot of the frame held
    files,      \* what the file at each path holds
    _config,    \* utils._config, the cached config
    calls,      \* the calls of load_config made so far, with their outcomes
    dev,        \* the MLX90640 device: its temp_offset and registered alerts
    cap         \* the last capture() made on the device, its reads and outcome

vars == <<alert, lastOp, cause, frame, fop, result, chain, sequence, sop, spot,
          files, _config, calls, dev, cap>>

alertVars == <<alert, lastOp, cause>>
frameVars == <<frame, fop, result, chain>>
surfaceVars == <<sequence, sop>>
spotVars == <<spot>>
configVars == <<files, _config, calls>>
captureVars == <<dev, cap>>

\* What the calls on one object leave alone: the other objects
exceptAlert == <<frameVars, surfaceVars, spotVars, configVars, captureVars>>
exceptFrame == <<alertVars, surfaceVars, spotVars, configVars, captureVars>>
exceptSurface == <<alertVars, frameVars, spotVars, configVars, captureVars>>
exceptSpot == <<alertVars, surfaceVars, configVars, captureVars>>
exceptConfig == <<alertVars, frameVars, surfaceVars, spotVars, captureVars>>
exceptCapture == <<alertVars, frameVars, surfaceVars, spotVars, configVars>>

(***************************************************************************)
(* Bounds of the model.                                                    *)
(***************************************************************************)
MaxTriggers == 2        \* evaluate() is explored up to this trigger count
MaxFrameLen == 2        \* samples in a frame handed to an alert
MaxChain == 1           \* results of crop / outlier replacement adopted in turn
MaxSeqLen == 4          \* samples in a sequence searched for surfaces
MaxCalls == 3           \* calls of load_config
MaxAlerts == 2          \* alerts registered on a device
MaxAttempts == 2        \* attempts a capture is called with
MaxCaptures == 1        \* captures made on a device

(***************************************************************************)
(* Floats as exact rationals.                                              *)
(***************************************************************************)
RECURSIVE GCD(_, _)
GCD(a, b) == IF b = 0 THEN a ELSE GCD(b, a % b)

AbsInt(n) == IF n < 0 THEN -n ELSE n

\* n / d for d > 0, in lowest terms
Norm(n, d) ==
    LET g == GCD(AbsInt(n), d)
    IN  [num |-> n \div g, den |-> d \div g]

R(n) == [num |-> n, den |-> 1]

Add(a, b) == Norm(a.num * b.den + b.num * a.den, a.den * b.den)
Sub(a, b) == Norm(a.num * b.den - b.num * a.den, a.den * b.den)
Mul(a, b) == Norm(a.num * b.num, a.den * b.den)
Lt(a, b) == a.num * b.den < b.num * a.den
Le(a, b) == a.num * b.den <= b.num * a.den
Abs(a) == [num |-> AbsInt(a.num), den |-> a.den]

\* lst[lo] + ... + lst[hi], added up by halves to keep the evaluation shallow
\* (exact addition gives the same sum in any order)
RECURSIVE SumRange(_, _, _)
SumRange(lst, lo, hi) ==
    IF lo > hi THEN R(0)
    ELSE IF lo = hi THEN lst[lo]
    ELSE LET mid == (lo + hi) \div 2
         IN  Add(SumRange(lst, lo, mid), SumRange(lst, mid + 1, hi))

\* sum(lst) / len(lst), for a non-empty lst
avg(lst) ==
    LET s == SumRange(lst, 1, Len(lst))
    IN  Norm(s.num, s.den * Len(lst))

(***************************************************************************)
(* frame.py: Frame, a list of samples with cols and rows.                  *)
(***************************************************************************)
FRAME_COLS == 32
FRAME_ROWS == 24

\* What a call returns: a Frame, or the exception it raised (kind).
Raise(exc) == [kind |-> exc, cols |-> 0, rows |-> 0, data |-> <<>>]

\* Frame.__init__(iterable, cols, rows)
Frame(iterable, cols, rows) ==
    IF Len(iterable) # cols * rows
    THEN Raise("ValueError")
    ELSE [kind |-> "Frame", cols |-> cols, rows |-> rows, data |-> iterable]

Max(a, b) == IF a > b THEN a ELSE b
Min(a, b) == IF a < b THEN a ELSE b

\* Frame.crop(x1, y1, x2, y2): the samples self[(i * 32) + j] for i in
\* range(y1, y2) for j in range(x1, x2), after clamping to the sensor's size.
\* Reading past the end of the list raises IndexError before Frame() is built.
crop(self, x1, y1, x2, y2) ==
    LET cx1 == Max(0, x1)
        cx2 == Min(FRAME_COLS, x2)
        cy1 == Max(0, y1)
        cy2 == Min(FRAME_ROWS, y2)
        w == Max(0, cx2 - cx1)
        h == Max(0, cy2 - cy1)
        index(k) == ((cy1 + ((k - 1) \div w)) * 32) + (cx1 + ((k - 1) % w))
    IN  IF \E k \in 1..(h * w) : index(k) >= Len(self.data)
        THEN Raise("IndexError")
        ELSE Frame([k \in 1..(h * w) |-> self.data[index(k) + 1]],
                   cx2 - cx1, cy2 - cy1)

\* The list comprehension of replace_outliers_with_average
non_outliers(self, threshold, frame_avg) ==
    [k \in 1..Len(self.data) |->
        IF Lt(Abs(Sub(self.data[k], frame_avg)), Mul(threshold, frame_avg))
        THEN self.data[k] ELSE frame_avg]

\* Frame.replace_outliers_with_average(threshold); the new Frame is built with
\* the default cols and rows.  (frame_avg is bound once, as in the code.)
replace_outliers_with_average(self, threshold) ==
    IF Len(self.data) = 0 THEN Raise("ZeroDivisionError")
    ELSE CHOOSE made \in
             {Frame(non_outliers(self, threshold, frame_avg),
                    FRAME_COLS, FRAME_ROWS) :
                 frame_avg \in {avg(self.data)}} : TRUE

\* What a call returns when it is not a Frame: an int or a list
Return(kind, value) == [kind |-> kind, cols |-> 0, rows |-> 0, data |-> value]

\* self[index] of a list: IndexError outside range(-len, len), and a negative
\* index counts from the end
getitem(self, index) ==
    IF index >= Len(self.data) \/ index < -Len(self.data)
    THEN Raise("IndexError")
    ELSE Return("float", <<self.data[IF index < 0
                                     THEN Len(self.data) + index + 1
                                     ELSE index + 1]>>)

\* Frame.get_index(row, col)
get_index(self, row, col) ==
    IF ~(0 <= row /\ row <= self.rows) THEN Raise("IndexError")
    ELSE IF ~(0 <= col /\ col <= self.cols) THEN Raise("IndexError")
    ELSE Return("int", <<row * self.cols + col>>)

\* self[self.get_index(row, col)]
at(self, row, col) ==
    LET index == get_index(self, row, col)
    IN  IF index.kind # "int" THEN index ELSE getitem(self, index.data[1])

\* Frame.get_row(row): the list comprehension fails with the first exception
\* that get_index or the list raises
get_row(self, row) ==
    IF \E col \in 0..(self.cols - 1) : at(self, row, col).kind # "float"
    THEN Raise("IndexError")
    ELSE Return("list", [k \in 1..self.cols |-> at(self, row, k - 1).data[1]])

\* Frame.get_col(col)
get_col(self, col) ==
    IF \E row \in 0..(self.rows - 1) : at(self, row, col).kind # "float"
    THEN Raise("IndexError")
    ELSE Return("list", [k \in 1..self.rows |-> at(self, k - 1, col).data[1]])

\* The elements of a set of integers in increasing order
RECURSIVE Sorted(_)
Sorted(S) ==
    IF S = {} THEN <<>>
    ELSE LET least == CHOOSE x \in S : \A y \in S : x <= y
         IN  <<least>> \o Sorted(S \ {least})

\* The squared-error cost of the segment signal[a:b] around its own mean
\* (the mean is computed once)
cost(signal, a, b) ==
    CHOOSE sum \in
        {SumRange([k \in (a + 1)..b |->
                      Mul(Sub(signal[k], mean), Sub(signal[k], mean))],
                  a + 1, b) :
            mean \in {avg(SubSeq(signal, a + 1, b))}} : TRUE

\* The cost of the partition that ends its segments at bkps: the segments'
\* costs and the penalty once per segment
RECURSIVE total_cost(_, _, _, _)
total_cost(signal, bkps, penalty, i) ==
    IF i > Len(bkps) THEN R(0)
    ELSE Add(Add(cost(signal, IF i = 1 THEN 0 ELSE bkps[i - 1], bkps[i]),
                 R(penalty)),
             total_cost(signal, bkps, penalty, i + 1))

\* The breakpoints a partition of n samples can have: multiples of jump
\* inside the signal, then n
Partitions(n, jump) ==
    {Sorted({n} \cup cuts) : cuts \in SUBSET {k \in 1..(n - 1) : k % jump = 0}}

\* rpt.Pelt(model, jump=jump).fit(signal).predict(penalty): the breakpoints
\* of a partition of least cost, any one of them when several are as good;
\* a signal of fewer than 2 samples is refused.  (costs is computed once.)
Pelt(signal, penalty, jump) ==
    IF Len(signal) < 2 THEN {Raise("InsufficientData")}
    ELSE UNION {{Return("list", best[1]) :
                    best \in {b \in costs : \A c \in costs : Le(b[2], c[2])}} :
                costs \in {{<<bkps, total_cost(signal, bkps, penalty, 1)>> :
                               bkps \in Partitions(Len(signal), jump)}}}

\* get_surfaces_edges returning the breakpoints as the library hands them over
get_surfaces_edges_bare(predicted) == predicted

\* Frame.get_surfaces_edges(sequence, penalty, jump): [0, *result] for the
\* result predicted by the library, whose exception it lets through
get_surfaces_edges(predicted) ==
    IF predicted.kind # "list" THEN predicted
    ELSE Return("list", <<0>> \o predicted.data)

\* lst[lo:hi]: a slice clamps its ends to the list, a negative end counts
\* from the end of the list
slice(lst, lo, hi) ==
    LET a == IF lo < 0 THEN Max(0, Len(lst) + lo) ELSE Min(Len(lst), lo)
        b == IF hi < 0 THEN Max(0, Len(lst) + hi) ELSE Min(Len(lst), hi)
    IN  SubSeq(lst, a + 1, b)

\* min(lst), for a non-empty lst
min(lst) ==
    lst[CHOOSE i \in 1..Len(lst) :
            /\ \A j \in 1..Len(lst) : Le(lst[i], lst[j])
            /\ \A j \in 1..(i - 1) : ~Le(lst[j], lst[i])]

\* What get_surfaces returns, (start, end, highest), or the exception raised
Surface(start, end, highest) ==
    [kind |-> "tuple", start |-> start, end |-> end, highest |-> highest]
SurfaceRaise(exc) ==
    [kind |-> exc, start |-> 0, end |-> 0, highest |-> <<>>]

\* the loop of get_surfaces with avg(surface) >= avg(highest): among segments
\* of equal mean the last one wins
RECURSIVE surfaces_loop_ge(_, _, _, _)
surfaces_loop_ge(seq, edges, i, best) ==
    IF i > Len(edges) - 1 THEN best
    ELSE LET surface == slice(seq, edges[i], edges[i + 1])
         IN  IF Len(surface) = 0 THEN SurfaceRaise("ZeroDivisionError")
             ELSE IF Le(avg(best.highest), avg(surface))
             THEN surfaces_loop_ge(seq, edges, i + 1,
                                   Surface(edges[i], edges[i + 1], surface))
             ELSE surfaces_loop_ge(seq, edges, i + 1, best)

\* The for loop of get_surfaces from i on (i counts from 1); best is
\* (start, end, highest) so far.  avg of an empty surface divides by zero.
RECURSIVE surfaces_loop(_, _, _, _)
surfaces_loop(seq, edges, i, best) ==
    IF i > Len(edges) - 1 THEN best
    ELSE LET surface == slice(seq, edges[i], edges[i + 1])
         IN  IF Len(surface) = 0 THEN SurfaceRaise("ZeroDivisionError")
             ELSE IF Lt(avg(best.highest), avg(surface))
             THEN surfaces_loop(seq, edges, i + 1,
                                Surface(edges[i], edges[i + 1], surface))
             ELSE surfaces_loop(seq, edges, i + 1, best)

\* Frame.get_surfaces(sequence, edges); min of an empty sequence is a
\* ValueError
get_surfaces(seq, edges) ==
    IF Len(seq) = 0 THEN SurfaceRaise("ValueError")
    ELSE surfaces_loop(seq, edges, 1, Surface(0, 0, <<min(seq)>>))

\* Frame.iterate_rows(), as the list of what it yields
iterate_rows(self) == [k \in 1..self.rows |-> get_row(self, k - 1)]

(***************************************************************************)
(* utils.py: the search for the hottest spot of a frame.                   *)
(***************************************************************************)
\* min(lst) and max(lst) of a non-empty list of ints
min_int(lst) == CHOOSE x \in {lst[i] : i \in 1..Len(lst)} :
                    \A i \in 1..Len(lst) : x <= lst[i]
max_int(lst) == CHOOSE x \in {lst[i] : i \in 1..Len(lst)} :
                    \A i \in 1..Len(lst) : x >= lst[i]

\* The tests of the two appends of calculate_best_coords_to_crop
is_value1(value1) == value1 # 0
is_value2(value2) == value2 # 32

\* What the body of the loop of calculate_best_coords_to_crop gets for the
\* k-th sequence: the (value1, value2, _) of get_surfaces, or the exception
\* raised by the iterable, by get_surfaces_edges or by get_surfaces.
\* sequences[k] is what the iterable yields, predicted[k] what the library
\* predicts for it.
best_surface(sequences, predicted, k) ==
    IF sequences[k].kind # "list" THEN SurfaceRaise(sequences[k].kind)
    ELSE IF get_surfaces_edges(predicted[k]).kind # "list"
    THEN SurfaceRaise(get_surfaces_edges(predicted[k]).kind)
    ELSE get_surfaces(sequences[k].data, get_surfaces_edges(predicted[k]).data)

\* The loop of calculate_best_coords_to_crop over the surfaces found and its
\* return: the first exception ends it; best_value1 and best_value2 are the
\* starts and the ends appended, in the order of the sequences.
best_coords(surfaces) ==
    IF \E k \in 1..Len(surfaces) : surfaces[k].kind # "tuple"
    THEN Raise(surfaces[CHOOSE k \in 1..Len(surfaces) :
                           /\ surfaces[k].kind # "tuple"
                           /\ \A j \in 1..(k - 1) :
                                  surfaces[j].kind = "tuple"].kind)
    ELSE LET best_value1 ==
                 SelectSeq([k \in 1..Len(surfaces) |-> surfaces[k].start],
                           is_value1)
             best_value2 ==
                 SelectSeq([k \in 1..Len(surfaces) |-> surfaces[k].end],
                           is_value2)
         IN  Return("tuple",
                    <<min_int(IF best_value1 # <<>> THEN best_value1 ELSE <<0>>),
                      max_int(IF best_value2 # <<>> THEN best_value2
                              ELSE <<32>>)>>)

\* calculate_best_coords_to_crop(sequences, penalty)
calculate_best_coords_to_crop(sequences, predicted) ==
    best_coords(SubSeq([k \in 1..Len(sequences) |->
                           best_surface(sequences, predicted, k)],
                       1, Len(sequences)))

\* (frame.get_col(i) for i in range(x1, x2))
cols_in_range(self, x1, x2) ==
    [k \in 1..Max(0, x2 - x1) |-> get_col(self, x1 + k - 1)]

\* What the library predicts for each sequence yielded when it cuts every
\* sequence at the places cuts: the cuts inside the sequence, then its length
predict_each(sequences, cuts) ==
    [k \in 1..Len(sequences) |->
        Return("list",
               Sorted({c \in cuts : c < Len(sequences[k].data)}
                      \cup {Len(sequences[k].data)}))]

\* find_hottest_spot(frame, penalty), for a library that cuts the rows at
\* row_cuts and the columns at col_cuts
find_hottest_spot(self, row_cuts, col_cuts) ==
    CHOOSE ret \in
        {IF xs.kind # "tuple" THEN xs
         ELSE CHOOSE made \in
                  {IF ys.kind # "tuple" THEN ys
                   ELSE Return("tuple", <<xs.data[1], ys.data[1],
                                          xs.data[2], ys.data[2]>>) :
                      ys \in {calculate_best_coords_to_crop(
                                  cols_in_range(self, xs.data[1], xs.data[2]),
                                  predict_each(cols_in_range(self, xs.data[1],
                                                             xs.data[2]),
                                               col_cuts))}} : TRUE :
            xs \in {calculate_best_coords_to_crop(
                        iterate_rows(self),
                        predict_each(iterate_rows(self), row_cuts))}} : TRUE

(***************************************************************************)
(* utils.py: load_config and the module-level cache _config.  A JSON       *)
(* object is a function from its keys to its values, a JSON array a        *)
(* sequence, null the string "None"; a config object is a dict with the    *)
(* identity id it got when it was built.                                   *)
(***************************************************************************)
\* What load_config does before the cache is set: a config, or the exception
Loaded(value) == [kind |-> "dict", value |-> value]
LoadRaise(exc) == [kind |-> exc, value |-> <<>>]

\* _config = None
NoConfig == [id |-> 0, value |-> <<>>]

\* if _config: the cache holds an object and the dict is not empty
truthy(config) == config.id # 0 /\ DOMAIN config.value # {}

\* dict.setdefault(key, value)
setdefault(dict, key, value) ==
    IF key \in DOMAIN dict THEN dict ELSE dict @@ (key :> value)

HexDigits ==
    <<"0", "1", "2", "3", "4", "5", "6", "7",
      "8", "9", "a", "b", "c", "d", "e", "f">>

\* int(text, 16) for a string given as its characters: -1 stands for the
\* ValueError of an empty string or of a character that is no hex digit
RECURSIVE int16(_)
int16(text) ==
    IF text = <<>> THEN -1
    ELSE LET last == text[Len(text)]
             digit == IF \E d \in 1..16 : HexDigits[d] = last
                      THEN (CHOOSE d \in 1..16 : HexDigits[d] = last) - 1
                      ELSE -1
             front == IF Len(text) = 1 THEN 0
                      ELSE int16(SubSeq(text, 1, Len(text) - 1))
         IN  IF digit < 0 \/ front < 0 THEN -1 ELSE 16 * front + digit

\* The addr of a sensor after the first loop: int(sensor_addr[2:], 16) if it
\* is a string, itself if it is an int
addr_to_int(addr) ==
    IF addr.kind = "str"
    THEN [kind |-> "int", value |-> int16(SubSeq(addr.text, 3, Len(addr.text)))]
    ELSE addr

\* What the first loop raises on a sensor, "" if nothing
bad_addr(sensor) ==
    IF "addr" \notin DOMAIN sensor THEN "KeyError"
    ELSE IF addr_to_int(sensor["addr"]).value < 0 THEN "ValueError"
    ELSE ""

\* The keys every alert of a sensor gets
alert_defaults(entry) ==
    setdefault(setdefault(setdefault(setdefault(
        entry, "min", "None"), "avg", "None"), "max", "None"), "name", "None")

\* The body of the last loop for one sensor: the keys it lacks are taken
\* from default, then each of its alerts gets its missing keys
sensor_defaults(sensor, default) ==
    LET filled ==
            setdefault(setdefault(setdefault(setdefault(setdefault(setdefault(
                sensor, "attempts", default["attempts"]),
                "crop", default["crop"]),
                "offset", default["offset"]),
                "threshold", default["threshold"]),
                "outlier_threshold", default["outlier_threshold"]),
                "alerts", default["alerts"])
    IN  [filled EXCEPT
            !["alerts"] = [k \in 1..Len(@) |-> alert_defaults(@[k])]]

\* load_config after json.loads: the conversions and the defaults, or the
\* exception of the first key, index or digit that is missing
with_defaults(config) ==
    IF "sensors" \notin DOMAIN config THEN LoadRaise("KeyError")
    ELSE IF \E k \in 1..Len(config["sensors"]) :
                bad_addr(config["sensors"][k]) # ""
    THEN LoadRaise(bad_addr(config["sensors"][
             CHOOSE k \in 1..Len(config["sensors"]) :
                 /\ bad_addr(config["sensors"][k]) # ""
                 /\ \A j \in 1..(k - 1) :
                        bad_addr(config["sensors"][j]) = ""]))
    ELSE IF "default" \notin DOMAIN config THEN LoadRaise("KeyError")
    ELSE IF "threshold" \notin DOMAIN config["default"]
    THEN LoadRaise("KeyError")
    ELSE IF Len(config["default"]["threshold"].items) < 2
    THEN LoadRaise("IndexError")
    ELSE IF /\ config["sensors"] # <<>>
            /\ \E key \in {"attempts", "offset", "outlier_threshold", "alerts"} :
                   key \notin DOMAIN config["default"]
    THEN LoadRaise("KeyError")
    ELSE LET default ==
                 [setdefault(config["default"], "crop",
                             [x1 |-> 0, y1 |-> 0, x2 |-> 32, y2 |-> 24])
                     EXCEPT !["threshold"] =
                                [kind |-> "tuple",
                                 items |-> SubSeq(@.items, 1, 2)]]
             \* a sensor without alerts shares the list of default, whose
             \* alerts get their missing keys through it
             shared == \E k \in 1..Len(config["sensors"]) :
                          "alerts" \notin DOMAIN config["sensors"][k]
         IN  Loaded([sensors |->
                        [k \in 1..Len(config["sensors"]) |->
                            sensor_defaults(
                                [config["sensors"][k] EXCEPT
                                    !["addr"] = addr_to_int(@)],
                                default)],
                     default |->
                        IF shared
                        THEN [default EXCEPT
                                 !["alerts"] =
                                     [k \in 1..Len(@) |-> alert_defaults(@[k])]]
                        ELSE default])

\* The default sensor of a config file
DefaultSensor ==
    [threshold |-> [kind |-> "list", items |-> <<-40, 300>>],
     attempts |-> 10, offset |-> 0, outlier_threshold |-> 2,
     alerts |-> <<[name |-> "hot", max |-> 38]>>]

\* The JSON value of the files explored, by what the file holds
FileJson(file) ==
    CASE file = "one sensor" ->
            [default |-> DefaultSensor,
             sensors |-> <<[addr |-> [kind |-> "str",
                                      text |-> <<"0", "x", "3", "3">>]]>>]
      [] file = "own settings" ->
            [default |-> [DefaultSensor EXCEPT !.attempts = 5],
             sensors |-> <<[addr |-> [kind |-> "int", value |-> 52],
                            attempts |-> 3, alerts |-> <<>>]>>]
      [] file = "no sensors" ->
            [default |-> [threshold |-> [kind |-> "list",
                                         items |-> <<0, 100, 200>>]],
             sensors |-> <<>>]
      [] file = "bad addr" ->
            [default |-> DefaultSensor,
             sensors |-> <<[addr |-> [kind |-> "str",
                                      text |-> <<"0", "x", "z">>]]>>]
      [] file = "no attempts" ->
            [default |-> [threshold |-> [kind |-> "list",
                                         items |-> <<-40, 300>>]],
             sensors |-> <<[addr |-> [kind |-> "int", value |-> 51]]>>]
      [] file = "empty object" -> <<>>

\* open(path).read() and json.loads of what was read
read_json(file) ==
    IF file = "missing" THEN LoadRaise("FileNotFoundError")
    ELSE IF file = "not json" THEN LoadRaise("JSONDecodeError")
    ELSE Loaded(FileJson(file))

\* load_config that reads the file whatever the cache holds
load_config_uncached(config, disk, path, id) ==
    LET read == read_json(disk[path])
        made == IF read.kind # "dict" THEN read ELSE with_defaults(read.value)
    IN  IF made.kind # "dict"
        THEN [config |-> config, opened |-> <<path>>, raised |-> made.kind,
              ret |-> NoConfig]
        ELSE [config |-> [id |-> id, value |-> made.value],
              opened |-> <<path>>, raised |-> "",
              ret |-> [id |-> id, value |-> made.value]]

\* load_config(path), called with _config = config; the dict it builds gets
\* the identity id.  opened lists the files it opened, config is _config
\* when it returns or raises.
load_config(config, disk, path, id) ==
    IF truthy(config)
    THEN [config |-> config, opened |-> <<>>, raised |-> "", ret |-> config]
    ELSE LET read == read_json(disk[path])
             made == IF read.kind # "dict" THEN read
                     ELSE with_defaults(read.value)
         IN  IF made.kind # "dict"
             THEN [config |-> config, opened |-> <<path>>,
                   raised |-> made.kind, ret |-> NoConfig]
             ELSE [config |-> [id |-> id, value |-> made.value],
                   opened |-> <<path>>, raised |-> "",
                   ret |-> [id |-> id, value |-> made.value]]

(***************************************************************************)
(* alert.py: Alert.                                                        *)
(***************************************************************************)
\* Threshold | float | None
None == [kind |-> "None", lo |-> R(0), hi |-> R(0)]
Scalar(x) == [kind |-> "float", lo |-> x, hi |-> x]
Tuple(lo, hi) == [kind |-> "tuple", lo |-> lo, hi |-> hi]

\* _last_trigger is declared on the class but assigned by should_trigger only
Unset == [offender |-> "unset", value |-> R(0)]

\* Alert.__init__
AlertInit(min_value, avg_value, max_value, condition_callback, on_trigger) ==
    [trigger_count |-> 0,
     last_trigger |-> Unset,
     on_trigger |-> on_trigger,
     min_value |-> min_value,
     avg_value |-> avg_value,
     max_value |-> max_value,
     condition_callback |-> condition_callback]

\* Alert._eval(test, value, cb); cb_result is what cb(test, value) returns
eval(test, value, cb_result) ==
    IF test.kind = "None" THEN TRUE
    ELSE IF test.kind = "tuple" THEN Le(test.lo, value) /\ Lt(value, test.hi)
    ELSE cb_result

\* eval_min with the comparison value >= test in place of value > test
eval_min_inclusive(self, value) ==
    ~eval(self.min_value, value, Le(self.min_value.lo, value))

\* Alert._eval_min(value): not _eval(min_value, value, value > test)
eval_min(self, value) ==
    ~eval(self.min_value, value, Lt(self.min_value.lo, value))

\* Alert._eval_max(value): not _eval(max_value, value, value < test)
eval_max(self, value) ==
    ~eval(self.max_value, value, Lt(value, self.max_value.lo))

\* The index of the sample at which `for value in frame` returns, 0 if none.
FirstOffender(self, data) ==
    LET hits == {i \in 1..Len(data) :
                    eval_min(self, data[i]) \/ eval_max(self, data[i])}
    IN  IF hits = {} THEN 0
        ELSE CHOOSE i \in hits : \A j \in hits : i <= j

\* The average test of should_trigger
AvgOutside(avg_value, a) == Lt(a, avg_value.lo) \/ Lt(avg_value.hi, a)

\* Alert.should_trigger(frame); cb_result is what condition_callback() returns
\* if it is called.  ret is the value returned or the exception raised,
\* predicate what condition_callback() returned ("" if it was not called).
should_trigger(self, frm, cb_result) ==
    IF Len(frm.data) = 0
    THEN [ret |-> "ZeroDivisionError", last_trigger |-> self.last_trigger,
          predicate |-> ""]
    ELSE
    LET a == avg(frm.data)
        i == FirstOffender(self, frm.data)
    IN  IF self.avg_value.kind # "None" /\ AvgOutside(self.avg_value, a)
        THEN [ret |-> "True",
              last_trigger |-> [offender |-> "avg", value |-> a],
              predicate |-> ""]
        ELSE IF i # 0
        THEN [ret |-> "True",
              last_trigger |->
                  [offender |-> IF eval_min(self, frm.data[i])
                                THEN "min" ELSE "max",
                   value |-> frm.data[i]],
              predicate |-> ""]
        ELSE IF self.condition_callback /\ cb_result
        THEN IF self.last_trigger = Unset
             THEN [ret |-> "AttributeError", last_trigger |-> Unset,
                   predicate |-> "True"]
             ELSE [ret |-> "True",
                   last_trigger |->
                       [self.last_trigger EXCEPT !.offender = "cb"],
                   predicate |-> "True"]
        ELSE [ret |-> "False", last_trigger |-> self.last_trigger,
              predicate |-> IF self.condition_callback THEN "False" ELSE ""]

\* trigger without the trigger_counter decorator: the count is left alone
trigger_uncounted(self, frm, cb_raises) ==
    [self |-> self,
     notified |-> IF self.on_trigger
                  THEN <<[alert |-> self, frame |-> frm]>>
                  ELSE <<>>,
     raised |-> IF self.on_trigger /\ cb_raises THEN "Exception" ELSE ""]

\* trigger with the count incremented after on_trigger has been called
trigger_notify_first(self, frm, cb_raises) ==
    [self |-> IF self.on_trigger /\ cb_raises
              THEN self ELSE [self EXCEPT !.trigger_count = @ + 1],
     notified |-> IF self.on_trigger
                  THEN <<[alert |-> self, frame |-> frm]>>
                  ELSE <<>>,
     raised |-> IF self.on_trigger /\ cb_raises THEN "Exception" ELSE ""]

\* Alert.trigger(frame), wrapped by trigger_counter: the count is incremented,
\* then on_trigger(self, frame) is called if it is set.  notified is the list
\* of on_trigger calls made, each with the alert as the callback sees it;
\* cb_raises says whether the caller's on_trigger raises when called.
trigger(self, frm, cb_raises) ==
    LET counted == [self EXCEPT !.trigger_count = @ + 1]
    IN  [self |-> counted,
         notified |-> IF self.on_trigger
                      THEN <<[alert |-> counted, frame |-> frm]>>
                      ELSE <<>>,
         raised |-> IF self.on_trigger /\ cb_raises THEN "Exception" ELSE ""]

\* Alert.evaluate(frame).  ret is what should_trigger returned or raised,
\* raised the exception that leaves evaluate ("" if none).
evaluate(self, frm, cb_result, cb_raises) ==
    LET st == should_trigger(self, frm, cb_result)
        checked == [self EXCEPT !.last_trigger = st.last_trigger]
    IN  IF st.ret = "True"
        THEN [ret |-> st.ret, predicate |-> st.predicate]
                 @@ trigger(checked, frm, cb_raises)
        ELSE [ret |-> st.ret, predicate |-> st.predicate,
              self |-> checked, notified |-> <<>>,
              raised |-> IF st.ret = "False" THEN "" ELSE st.ret]

(***************************************************************************)
(* driver.py: MLX90640, the device with its registered alerts.             *)
(***************************************************************************)
\* MLX90640.__init__: self.temp_offset = temp_offset, self.alerts = []
MLX90640Init(temp_offset) == [temp_offset |-> temp_offset, alerts |-> <<>>]

\* An Alert as the device holds it.  cb_result is what its condition_callback
\* returns when called, cb_raises whether its on_trigger raises.
Registered(alert_object, cb_result, cb_raises) ==
    [alert |-> alert_object, cb_result |-> cb_result, cb_raises |-> cb_raises]

\* MLX90640.register_alert(alert): self.alerts.append(alert)
register_alert(self, registered) ==
    [self EXCEPT !.alerts = Append(@, registered)]

\* What _handle_alerts did: the alerts after it, the indices of the alerts
\* evaluated and of those whose on_trigger was called, in the order of the
\* calls, and the exception that left it ("" if none).
Handled(alerts, evaluated, notified, raised) ==
    [alerts |-> alerts, evaluated |-> evaluated, notified |-> notified,
     raised |-> raised]

RECURSIVE _handle_alerts(_, _, _)
\* One turn of the loop of _handle_alerts: e is what alert.evaluate(frame)
\* did on the k-th alert.  An exception leaves the loop.
handle_alert(alerts, frm, k, e) ==
    LET after == [alerts EXCEPT ![k].alert = e.self]
        called == IF e.notified = <<>> THEN <<>> ELSE <<k>>
    IN  IF e.raised # ""
        THEN Handled(after, <<k>>, called, e.raised)
        ELSE CHOOSE h \in
                 {Handled(rest.alerts, <<k>> \o rest.evaluated,
                          called \o rest.notified, rest.raised) :
                     rest \in {_handle_alerts(after, frm, k + 1)}} : TRUE

\* MLX90640._handle_alerts(frame), from the k-th alert on:
\* for alert in self.alerts: alert.evaluate(frame)
_handle_alerts(alerts, frm, k) ==
    IF k > Len(alerts) THEN Handled(alerts, <<>>, <<>>, "")
    ELSE CHOOSE h \in
             {handle_alert(alerts, frm, k, e) :
                 e \in {evaluate(alerts[k].alert, frm, alerts[k].cb_result,
                                 alerts[k].cb_raises)}} : TRUE

\* What self.dev.read_frame() gives, compensated by do_compensation: None,
\* an exception, or the list of the temperatures of the pixels
ReadNone == Return("None", <<>>)
ReadRaises == Raise("Exception")
ReadList(temperatures) == Return("list", temperatures)

\* [temp + self.temp_offset for temp in no_outliers]
with_offset(self, no_outliers) ==
    SubSeq([k \in 1..Len(no_outliers.data) |->
               Add(no_outliers.data[k], self.temp_offset)],
           1, Len(no_outliers.data))

\* all(min_temp <= temp <= max_temp for temp in final_frame)
in_threshold(final_frame, threshold) ==
    \A k \in 1..Len(final_frame.data) :
        /\ Le(threshold.lo, final_frame.data[k])
        /\ Le(final_frame.data[k], threshold.hi)

\* What one pass through the try of capture did: final is the frame it
\* made (or the exception raised, or None for a read of None), returns
\* whether `return final_frame` was reached.
Tried(alerts, final, evaluated, notified, raised, returns) ==
    [alerts |-> alerts, final |-> final, evaluated |-> evaluated,
     notified |-> notified, raised |-> raised, returns |-> returns]

\* if all(...): self._handle_alerts(final_frame); return final_frame
checked(self, final_frame, threshold) ==
    IF final_frame.kind # "Frame"
    THEN Tried(self.alerts, final_frame, <<>>, <<>>, final_frame.kind, FALSE)
    ELSE IF ~in_threshold(final_frame, threshold)
    THEN Tried(self.alerts, final_frame, <<>>, <<>>, "", FALSE)
    ELSE CHOOSE t \in
             {Tried(h.alerts, final_frame, h.evaluated, h.notified, h.raised,
                    h.raised = "") :
                 h \in {_handle_alerts(self.alerts, final_frame, 1)}} : TRUE

\* Frame([temp + self.temp_offset for temp in no_outliers])
final_frame_of(self, no_outliers) ==
    IF no_outliers.kind # "Frame" THEN no_outliers
    ELSE Frame(with_offset(self, no_outliers), FRAME_COLS, FRAME_ROWS)

\* compensated.replace_outliers_with_average(threshold=outlier_threshold)
no_outliers_of(compensated, outlier_threshold) ==
    IF compensated.kind # "Frame" THEN compensated
    ELSE replace_outliers_with_average(compensated, outlier_threshold)

\* The body of the try of capture on what read_frame gave
try_body(self, read, threshold, outlier_threshold) ==
    IF read.kind = "None"
    THEN Tried(self.alerts, read, <<>>, <<>>, "", FALSE)
    ELSE IF read.kind # "list"
    THEN Tried(self.alerts, read, <<>>, <<>>, read.kind, FALSE)
    ELSE CHOOSE t \in
             {checked(self, final_frame, threshold) :
                 final_frame \in
                     {final_frame_of(self,
                          no_outliers_of(Frame(read.data, FRAME_COLS,
                                               FRAME_ROWS),
                                         outlier_threshold))}} : TRUE

\* What capture did: ret is the Frame returned or None, at the attempt that
\* returned it (0 if none), finals what each attempt made, evaluated and
\* notified the alerts evaluated and notified with the attempt whose frame
\* they were given, cleared the calls of self.dev.clear_error.
Captured(alerts, ret, attempt, finals, evaluated, notified, cleared) ==
    [alerts |-> alerts, ret |-> ret, at |-> attempt, finals |-> finals,
     evaluated |-> evaluated, notified |-> notified, cleared |-> cleared]

\* The alerts ks, each with the attempt i
on_attempt(ks, i) == [j \in 1..Len(ks) |-> [alert |-> ks[j], attempt |-> i]]

RECURSIVE capture_loop(_, _, _, _, _)
\* One turn of `for _ in range(attempts)`: t is what the try did
capture_turn(self, reads, threshold, outlier_threshold, i, t) ==
    IF t.returns
    THEN Captured(t.alerts, t.final, i, <<t.final>>,
                  on_attempt(t.evaluated, i), on_attempt(t.notified, i), 0)
    ELSE CHOOSE c \in
             {Captured(rest.alerts, rest.ret, rest.at,
                       <<t.final>> \o rest.finals,
                       on_attempt(t.evaluated, i) \o rest.evaluated,
                       on_attempt(t.notified, i) \o rest.notified,
                       rest.cleared + (IF t.raised # "" THEN 1 ELSE 0)) :
                 rest \in {capture_loop([self EXCEPT !.alerts = t.alerts],
                                        reads, threshold, outlier_threshold,
                                        i + 1)}} : TRUE

\* The loop of capture from the i-th attempt on; reads[i] is what
\* self.dev.read_frame() gives at the i-th attempt.
capture_loop(self, reads, threshold, outlier_threshold, i) ==
    IF i > Len(reads)
    THEN Captured(self.alerts, Raise("None"), 0, <<>>, <<>>, <<>>, 0)
    ELSE CHOOSE c \in
             {capture_turn(self, reads, threshold, outlier_threshold, i, t) :
                 t \in {try_body(self, reads[i], threshold,
                                 outlier_threshold)}} : TRUE

\* MLX90640.capture(attempts=len(reads), threshold, outlier_threshold)
capture(self, reads, threshold, outlier_threshold) ==
    capture_loop(self, reads, threshold, outlier_threshold, 1)

(***************************************************************************)
(* The alerts and the frames explored.                                     *)
(***************************************************************************)
\* Samples of the frames handed to an alert
SampleVals == {R(v) : v \in 0..2}

RECURSIVE SeqsUpTo(_, _)
SeqsUpTo(S, n) ==
    IF n = 0 THEN {<<>>}
    ELSE LET shorter == SeqsUpTo(S, n - 1)
         IN  shorter \cup {Append(q, x) : q \in shorter, x \in S}

\* Frame(samples, cols=len(samples), rows=1)
AlertFrames == {Frame(q, Len(q), 1) : q \in SeqsUpTo(SampleVals, MaxFrameLen)}

\* The alerts explored: the one of examples.py (min_value=0, max_value=38,
\* with the maximum brought into the sample values), and others covering the
\* forms a threshold can take.
Alerts ==
    {AlertInit(Scalar(R(0)), None, Scalar(R(2)), FALSE, TRUE),
     AlertInit(Scalar(R(0)), Tuple(R(1), Norm(3, 2)), Scalar(R(2)), TRUE, TRUE),
     AlertInit(None, None, None, TRUE, TRUE),
     AlertInit(Tuple(R(1), R(2)), None, None, FALSE, FALSE),
     AlertInit(None, Tuple(R(1), Norm(3, 2)), Tuple(R(0), R(2)), TRUE, FALSE),
     AlertInit(None, None, None, FALSE, TRUE)}

NoOp ==
    [op |-> "none", frame |-> Frame(<<>>, 0, 1), ret |-> "", raised |-> "",
     predicate |-> "", notified |-> <<>>]

NoFrame == Raise("None")
NoFop == [op |-> "none", x1 |-> 0, y1 |-> 0, x2 |-> 0, y2 |-> 0,
          threshold |-> R(0), row |-> 0, col |-> 0]

NoSop == [op |-> "none", penalty |-> 0, jump |-> 0, edges |-> <<>>,
          raised |-> "", ret |-> SurfaceRaise("None")]

NoSpot == [op |-> "none", axis |-> "", x1 |-> 0, x2 |-> 0, row_cuts |-> {},
           col_cuts |-> {}, ret |-> Raise("None")]

NoCap ==
    [op |-> "none", n |-> 0, attempts |-> 0, threshold |-> Tuple(R(0), R(0)),
     outlier_threshold |-> R(0), alerts |-> 0, ret |-> Raise("None"),
     at |-> 0, finals |-> <<>>, evaluated |-> <<>>, notified |-> <<>>,
     cleared |-> 0]

\* The paths load_config is called with: the one of examples.py and another
Paths == {"./config.json", "./other.json"}

\* No alert is evaluated, no Frame method called, no surface searched.
AlertIdle ==
    /\ alert = AlertInit(None, None, None, FALSE, FALSE)
    /\ lastOp = NoOp
    /\ cause = Unset

FrameIdle ==
    /\ frame = NoFrame
    /\ fop = NoFop
    /\ result = NoFrame
    /\ chain = 0

SurfaceIdle ==
    /\ sequence = <<>>
    /\ sop = NoSop

SpotIdle == spot = NoSpot

ConfigIdle ==
    /\ files = [path \in Paths |-> "missing"]
    /\ _config = NoConfig
    /\ calls = <<>>

CaptureIdle ==
    /\ dev = MLX90640Init(R(0))
    /\ cap = NoCap

(***************************************************************************)
(* The alert state machine: an Alert is constructed, then its owner calls  *)
(* evaluate(frame) and should_trigger(frame) on it.                        *)
(***************************************************************************)
AlertSpecInit ==
    /\ alert \in Alerts
    /\ lastOp = NoOp
    /\ cause = Unset
    /\ frame = NoFrame
    /\ fop = NoFop
    /\ result = NoFrame
    /\ chain = 0
    /\ SurfaceIdle
    /\ SpotIdle
    /\ ConfigIdle
    /\ CaptureIdle

\* alert.evaluate(frm)
Evaluate ==
    \E frm \in AlertFrames,
       cb_result \in IF alert.condition_callback THEN BOOLEAN ELSE {FALSE},
       cb_raises \in IF alert.on_trigger THEN BOOLEAN ELSE {FALSE} :
        \E r \in {evaluate(alert, frm, cb_result, cb_raises)} :
            /\ r.self.trigger_count <= MaxTriggers
            /\ alert' = r.self
            /\ lastOp' = [op |-> "evaluate", frame |-> frm, ret |-> r.ret,
                          raised |-> r.raised, predicate |-> r.predicate,
                          notified |-> r.notified]
            /\ cause' = IF r.ret = "True" THEN r.self.last_trigger ELSE cause
            /\ UNCHANGED exceptAlert

\* alert.should_trigger(frm), called directly
ShouldTrigger ==
    \E frm \in AlertFrames,
       cb_result \in IF alert.condition_callback THEN BOOLEAN ELSE {FALSE} :
        \E st \in {should_trigger(alert, frm, cb_result)} :
            /\ alert' = [alert EXCEPT !.last_trigger = st.last_trigger]
            /\ lastOp' = [op |-> "should_trigger", frame |-> frm,
                          ret |-> st.ret,
                          raised |-> IF st.ret \in {"True", "False"}
                                     THEN "" ELSE st.ret,
                          predicate |-> st.predicate, notified |-> <<>>]
            /\ UNCHANGED cause
            /\ UNCHANGED exceptAlert

AlertNext == Evaluate \/ ShouldTrigger

AlertSpec == AlertSpecInit /\ [][AlertNext]_vars

(***************************************************************************)
(* Frames and their methods: the caller holds a frame, calls crop or       *)
(* replace_outliers_with_average on it, and then either goes on with the   *)
(* Frame returned (frame = frame.crop(x1, y1, x2, y2)) or drops it.        *)
(***************************************************************************)
\* Sample at (row, col) of the sensor frames explored, rows and cols from 0
Gradient(row, col) == R((row + col) % 4)
Checker(row, col) == R(IF (row + col) % 2 = 0 THEN -1 ELSE 1)
HotBand(row, col) == R(IF 8 <= col /\ col < 16 THEN 7 ELSE 3)
Cold(row, col) == R(IF (row + col) % 2 = 0 THEN -1 ELSE -3)

Uniform(row, col) == R(5)
HotSpot(row, col) ==
    R(IF 10 <= col /\ col < 20 /\ 8 <= row /\ row < 16 THEN 7 ELSE 3)
Corners(row, col) ==
    R(IF (row < 12 /\ col < 10) \/ (row >= 12 /\ col >= 20) THEN 7 ELSE 3)

Sample(pattern, row, col) ==
    CASE pattern = "gradient" -> Gradient(row, col)
      [] pattern = "checker" -> Checker(row, col)
      [] pattern = "hot band" -> HotBand(row, col)
      [] pattern = "cold" -> Cold(row, col)
      [] pattern = "uniform" -> Uniform(row, col)
      [] pattern = "hot spot" -> HotSpot(row, col)
      [] pattern = "corners" -> Corners(row, col)

\* Frame(samples): a full sensor frame, 24 rows of 32 samples
SensorFrame(pattern) ==
    Frame([k \in 1..(FRAME_COLS * FRAME_ROWS) |->
              Sample(pattern, (k - 1) \div FRAME_COLS, (k - 1) % FRAME_COLS)],
          FRAME_COLS, FRAME_ROWS)

Frames ==
    {SensorFrame(pattern) :
        pattern \in {"gradient", "checker", "hot band", "cold"}}
    \cup {Frame(<<R(0), R(1), R(2), R(5)>>, 2, 2)}

\* Arguments of crop: below, on and above the edges of the sensor
X1s == {-1, 0, 8}
X2s == {0, 2, 8, FRAME_COLS, FRAME_COLS + 1}
Y1s == {-1, 0, 1}
Y2s == {0, 1, 2, FRAME_ROWS, FRAME_ROWS + 1}

\* Outlier thresholds: tight, the default, and one above every
\* |x - avg| / |avg| of the frames explored
Huge == R(1000)
Thresholds == {Norm(1, 2), R(2), Huge}

FrameSpecInit ==
    /\ frame \in Frames
    /\ fop = NoFop
    /\ result = NoFrame
    /\ chain = 0
    /\ alert = AlertInit(None, None, None, FALSE, FALSE)
    /\ lastOp = NoOp
    /\ cause = Unset
    /\ SurfaceIdle
    /\ SpotIdle
    /\ ConfigIdle
    /\ CaptureIdle

\* frame.crop(x1, y1, x2, y2)
Crop ==
    \E x1 \in X1s, y1 \in Y1s, x2 \in X2s, y2 \in Y2s :
        /\ fop.op = "none"
        /\ fop' = [NoFop EXCEPT !.op = "crop", !.x1 = x1, !.y1 = y1,
                                !.x2 = x2, !.y2 = y2]
        /\ result' = crop(frame, x1, y1, x2, y2)
        /\ UNCHANGED <<frame, chain>>
        /\ UNCHANGED exceptFrame

\* frame.replace_outliers_with_average(threshold)
ReplaceOutliers ==
    \E threshold \in Thresholds :
        /\ fop.op = "none"
        /\ fop' = [NoFop EXCEPT !.op = "replace_outliers_with_average",
                                !.threshold = threshold]
        /\ result' = replace_outliers_with_average(frame, threshold)
        /\ UNCHANGED <<frame, chain>>
        /\ UNCHANGED exceptFrame

\* Row and column indices: below, on and above the edges of the frame held
Rows == {-1, 0, frame.rows - 1, frame.rows, frame.rows + 1}
Cols == {-1, 0, frame.cols - 1, frame.cols, frame.cols + 1}

\* frame.get_index(row, col)
GetIndex ==
    \E row \in Rows, col \in Cols :
        /\ fop.op = "none"
        /\ fop' = [NoFop EXCEPT !.op = "get_index", !.row = row, !.col = col]
        /\ result' = get_index(frame, row, col)
        /\ UNCHANGED <<frame, chain>>
        /\ UNCHANGED exceptFrame

\* frame.get_row(row)
GetRow ==
    \E row \in Rows :
        /\ fop.op = "none"
        /\ fop' = [NoFop EXCEPT !.op = "get_row", !.row = row]
        /\ result' = get_row(frame, row)
        /\ UNCHANGED <<frame, chain>>
        /\ UNCHANGED exceptFrame

\* frame.get_col(col)
GetCol ==
    \E col \in Cols :
        /\ fop.op = "none"
        /\ fop' = [NoFop EXCEPT !.op = "get_col", !.col = col]
        /\ result' = get_col(frame, col)
        /\ UNCHANGED <<frame, chain>>
        /\ UNCHANGED exceptFrame

\* The caller goes on with the Frame returned.
Adopt ==
    /\ result.kind = "Frame"
    /\ chain < MaxChain
    /\ frame' = result
    /\ fop' = NoFop
    /\ result' = NoFrame
    /\ chain' = chain + 1
    /\ UNCHANGED exceptFrame

\* The caller drops what the call returned or raised and keeps its frame.
Drop ==
    /\ fop.op # "none"
    /\ fop' = NoFop
    /\ result' = NoFrame
    /\ UNCHANGED <<frame, chain>>
    /\ UNCHANGED exceptFrame

FrameNext ==
    \/ Crop
    \/ ReplaceOutliers
    \/ GetIndex
    \/ GetRow
    \/ GetCol
    \/ Adopt
    \/ Drop

FrameSpec == FrameSpecInit /\ [][FrameNext]_vars

(***************************************************************************)
(* The surface search: the caller holds a list of samples (a row or a      *)
(* column of a frame) and calls one of the static methods of Frame on it.  *)
(***************************************************************************)
\* The sequence of the documentation: a hot block between two cold ones
Example ==
    <<R(0), R(0), R(0), R(10), R(10), R(10), R(0), R(0), R(0)>>

Sequences ==
    (SeqsUpTo(SampleVals, MaxSeqLen) \ {<<>>}) \cup {Example}

\* Arguments of get_surfaces_edges: jump defaults to 5, examples.py passes 1
Penalties == {0, 1, 100}
Jumps == {1, 2, 5}

\* The edges a segmenter can hand to get_surfaces for n samples: 0, cuts
\* inside the sequence in increasing order, n
EdgesOf(n) == {Sorted({0, n} \cup cuts) : cuts \in SUBSET (1..(n - 1))}

SurfaceSpecInit ==
    /\ sequence \in Sequences
    /\ sop = NoSop
    /\ AlertIdle
    /\ FrameIdle
    /\ SpotIdle
    /\ ConfigIdle
    /\ CaptureIdle

\* Frame.get_surfaces(sequence, edges)
GetSurfaces ==
    /\ sop.op = "none"
    /\ \E edges \in EdgesOf(Len(sequence)) :
        /\ sop' = [NoSop EXCEPT !.op = "get_surfaces", !.edges = edges,
                                !.ret = get_surfaces(sequence, edges)]
        /\ UNCHANGED sequence
        /\ UNCHANGED exceptSurface

\* Frame.get_surfaces_edges(sequence, penalty, jump)
GetSurfacesEdges ==
    /\ sop.op = "none"
    /\ \E penalty \in Penalties, jump \in Jumps :
        \E predicted \in Pelt(sequence, penalty, jump) :
            \E r \in {get_surfaces_edges(predicted)} :
                /\ sop' = [NoSop EXCEPT
                              !.op = "get_surfaces_edges",
                              !.penalty = penalty,
                              !.jump = jump,
                              !.edges = r.data,
                              !.raised = IF r.kind = "list" THEN "" ELSE r.kind]
                /\ UNCHANGED sequence
                /\ UNCHANGED exceptSurface

SurfaceNext == GetSurfaces \/ GetSurfacesEdges

SurfaceSpec == SurfaceSpecInit /\ [][SurfaceNext]_vars

(***************************************************************************)
(* The search for the hottest spot: the caller holds a sensor frame and    *)
(* calls find_hottest_spot on it, or calculate_best_coords_to_crop on its  *)
(* rows or on a range of its columns.                                      *)
(***************************************************************************)
SpotFrames ==
    {SensorFrame(pattern) :
        pattern \in {"gradient", "checker", "hot band", "uniform",
                      "hot spot", "corners"}}

\* Where the library cuts the rows and the columns (on multiples of the
\* default jump, 5): nowhere, around a hot block, at every candidate
RowCuts == {{}, {10, 20}, {5, 10, 15, 20, 25, 30}}
ColCuts == {{}, {10, 15}, {5, 10, 15, 20}}

\* Ranges of columns (x1, x2) handed to the second search
ColRanges == {<<0, FRAME_COLS>>, <<10, 20>>, <<20, 10>>}

SpotSpecInit ==
    /\ frame \in SpotFrames
    /\ fop = NoFop
    /\ result = NoFrame
    /\ chain = 0
    /\ spot = NoSpot
    /\ AlertIdle
    /\ SurfaceIdle
    /\ ConfigIdle
    /\ CaptureIdle

\* calculate_best_coords_to_crop(frame.iterate_rows(), penalty)
BestCoordsOfRows ==
    /\ spot.op = "none"
    /\ \E cuts \in RowCuts :
           spot' = [NoSpot EXCEPT
                       !.op = "calculate_best_coords_to_crop",
                       !.axis = "rows",
                       !.row_cuts = cuts,
                       !.ret = calculate_best_coords_to_crop(
                                   iterate_rows(frame),
                                   predict_each(iterate_rows(frame), cuts))]
    /\ UNCHANGED frameVars
    /\ UNCHANGED exceptSpot

\* calculate_best_coords_to_crop((frame.get_col(i) for i in range(x1, x2)),
\*                               penalty)
BestCoordsOfCols ==
    /\ spot.op = "none"
    /\ \E cuts \in ColCuts, range \in ColRanges :
           spot' = [NoSpot EXCEPT
                       !.op = "calculate_best_coords_to_crop",
                       !.axis = "cols",
                       !.x1 = range[1],
                       !.x2 = range[2],
                       !.col_cuts = cuts,
                       !.ret = calculate_best_coords_to_crop(
                                   cols_in_range(frame, range[1], range[2]),
                                   predict_each(cols_in_range(frame, range[1],
                                                              range[2]),
                                                cuts))]
    /\ UNCHANGED frameVars
    /\ UNCHANGED exceptSpot

\* find_hottest_spot(frame, penalty)
FindHottestSpot ==
    /\ spot.op = "none"
    /\ \E row_cuts \in RowCuts, col_cuts \in ColCuts :
           spot' = [NoSpot EXCEPT
                       !.op = "find_hottest_spot",
                       !.row_cuts = row_cuts,
                       !.col_cuts = col_cuts,
                       !.ret = find_hottest_spot(frame, row_cuts, col_cuts)]
    /\ UNCHANGED frameVars
    /\ UNCHANGED exceptSpot

SpotNext == BestCoordsOfRows \/ BestCoordsOfCols \/ FindHottestSpot

SpotSpec == SpotSpecInit /\ [][SpotNext]_vars

(***************************************************************************)
(* The config cache: files hold what they hold, and load_config is called  *)
(* on one path after another.                                              *)
(***************************************************************************)
FileContents ==
    {"missing", "not json", "empty object", "bad addr", "no attempts",
     "no sensors", "one sensor", "own settings"}

ConfigSpecInit ==
    /\ files \in [Paths -> FileContents]
    /\ _config = NoConfig
    /\ calls = <<>>
    /\ AlertIdle
    /\ FrameIdle
    /\ SurfaceIdle
    /\ SpotIdle
    /\ CaptureIdle

\* load_config(path)
LoadConfig ==
    /\ Len(calls) < MaxCalls
    /\ \E path \in Paths :
        \E r \in {load_config(_config, files, path, Len(calls) + 1)} :
            /\ _config' = r.config
            /\ calls' = Append(calls, [path |-> path, opened |-> r.opened,
                                       raised |-> r.raised, ret |-> r.ret])
            /\ UNCHANGED files
            /\ UNCHANGED exceptConfig

ConfigNext == LoadConfig

ConfigSpec == ConfigSpecInit /\ [][ConfigNext]_vars

(***************************************************************************)
(* Capturing: a device is opened, alerts are registered on it and frames   *)
(* are captured from it.                                                   *)
(***************************************************************************)
\* temp_offset of the devices explored
Offsets == {R(0), R(1)}

\* The alerts registered: the one of examples.py (min_value, max_value and
\* on_trigger, which raises or not), one with a condition_callback and one
\* with a range for the average.
RegisteredAlerts ==
    {Registered(AlertInit(Scalar(R(0)), None, Scalar(R(5)), FALSE, TRUE),
                FALSE, FALSE),
     Registered(AlertInit(Scalar(R(0)), None, Scalar(R(5)), FALSE, TRUE),
                FALSE, TRUE),
     Registered(AlertInit(None, None, None, TRUE, FALSE), TRUE, FALSE),
     Registered(AlertInit(None, Tuple(R(1), R(2)), None, FALSE, FALSE),
                FALSE, FALSE)}

\* What the sensor gives at an attempt
Reads ==
    {ReadNone, ReadRaises}
    \cup {ReadList(SensorFrame(pattern).data) :
              pattern \in {"gradient", "hot spot", "cold"}}

\* threshold of capture: the default and one that some frames exceed
CaptureThresholds == {Tuple(R(-40), R(300)), Tuple(R(0), R(5))}

\* outlier_threshold of capture: the default
OutlierThresholds == {Norm(3, 2)}

CaptureSpecInit ==
    /\ dev \in {MLX90640Init(temp_offset) : temp_offset \in Offsets}
    /\ cap = NoCap
    /\ AlertIdle
    /\ FrameIdle
    /\ SurfaceIdle
    /\ SpotIdle
    /\ ConfigIdle

\* dev.register_alert(Alert(...))
RegisterAlert ==
    /\ Len(dev.alerts) < MaxAlerts
    /\ \E registered \in RegisteredAlerts :
           dev' = register_alert(dev, registered)
    /\ UNCHANGED cap
    /\ UNCHANGED exceptCapture

\* dev.capture(attempts=attempts, threshold=threshold,
\*             outlier_threshold=outlier_threshold)
Capture ==
    /\ cap.n < MaxCaptures
    /\ \E attempts \in 0..MaxAttempts, threshold \in CaptureThresholds,
          outlier_threshold \in OutlierThresholds :
           \E reads \in [1..attempts -> Reads] :
               \E c \in {capture(dev, reads, threshold, outlier_threshold)} :
                   /\ dev' = [dev EXCEPT !.alerts = c.alerts]
                   /\ cap' = [op |-> "capture", n |-> cap.n + 1,
                              attempts |-> attempts, threshold |-> threshold,
                              outlier_threshold |-> outlier_threshold,
                              alerts |-> Len(dev.alerts), ret |-> c.ret,
                              at |-> c.at, finals |-> c.finals,
                              evaluated |-> c.evaluated,
                              notified |-> c.notified, cleared |-> c.cleared]
    /\ UNCHANGED exceptCapture

CaptureNext == RegisterAlert \/ Capture

CaptureSpec == CaptureSpecInit /\ [][CaptureNext]_vars

(***************************************************************************)
(* Properties of the alert state machine.                                  *)
(***************************************************************************)
\* The step is a call of evaluate in which should_trigger returned True.
TriggeringEvaluate == lastOp'.op = "evaluate" /\ lastOp'.ret = "True"

\* C1: trigger_count starts at 0; every evaluate call in which should_trigger
\* returns True increases it by exactly 1; every other call (should_trigger
\* returned False or raised) leaves it unchanged, so it never decreases.
C1_TriggerCountSteps ==
    /\ alert.trigger_count = 0
    /\ [][IF TriggeringEvaluate
          THEN alert'.trigger_count = alert.trigger_count + 1
          ELSE alert'.trigger_count = alert.trigger_count]_vars

\* An evaluate that did not trigger, made after two that did.
C1_Witness ==
    /\ alert.trigger_count >= 2
    /\ lastOp.op = "evaluate"
    /\ lastOp.ret \in {"False", "ZeroDivisionError"}

\* last_trigger lt names a rule that frame frm broke, with the value it broke
\* it with (the custom predicate carries no value of the frame).
Describes(lt, self, frm, predicate) ==
    \/ /\ lt.offender = "avg"
       /\ self.avg_value.kind # "None"
       /\ lt.value = avg(frm.data)
    \/ /\ lt.offender = "min"
       /\ self.min_value.kind # "None"
       /\ \E i \in 1..Len(frm.data) : frm.data[i] = lt.value
    \/ /\ lt.offender = "max"
       /\ self.max_value.kind # "None"
       /\ \E i \in 1..Len(frm.data) : frm.data[i] = lt.value
    \/ /\ lt.offender = "cb"
       /\ self.condition_callback
       /\ predicate = "True"

\* C2: an evaluate call in which should_trigger returns True calls the
\* registered on_trigger exactly once, with the alert as it is after the
\* increment and with last_trigger describing this frame, and with the frame
\* evaluated; an evaluate call that does not trigger never calls it.
C2_CallbackOncePostIncrement ==
    [][lastOp'.op = "evaluate" =>
          IF lastOp'.ret = "True" /\ alert.on_trigger
          THEN /\ Len(lastOp'.notified) = 1
               /\ lastOp'.notified[1].alert.trigger_count
                      = alert.trigger_count + 1
               /\ lastOp'.notified[1].alert = alert'
               /\ Describes(lastOp'.notified[1].alert.last_trigger, alert,
                            lastOp'.frame, lastOp'.predicate)
               /\ lastOp'.notified[1].frame = lastOp'.frame
          ELSE lastOp'.notified = <<>>]_vars

\* on_trigger has been called for a second trigger, caused by a sample.
C2_Witness ==
    /\ lastOp.op = "evaluate"
    /\ Len(lastOp.notified) = 1
    /\ lastOp.notified[1].alert.trigger_count = 2
    /\ lastOp.notified[1].alert.last_trigger.offender = "max"

\* C3: the last-trigger record is defined exactly when trigger_count >= 1, and
\* when defined it is the offender and value of the most recent evaluate call
\* that triggered.
C3_LastTriggerIffTriggered ==
    /\ alert.last_trigger # Unset <=> alert.trigger_count >= 1
    /\ alert.last_trigger # Unset => alert.last_trigger = cause

\* C4: with an average range (low, high) set, should_trigger returns True with
\* last_trigger = {"avg", average} exactly when the average is outside the
\* half-open interval [low, high), whatever the samples and the predicate.
C4_AvgHalfOpen ==
    (/\ lastOp.op # "none"
     /\ alert.avg_value.kind # "None"
     /\ Len(lastOp.frame.data) > 0) =>
        LET a == avg(lastOp.frame.data)
            outside == Lt(a, alert.avg_value.lo) \/ Le(alert.avg_value.hi, a)
        IN  outside <=>
                /\ lastOp.ret = "True"
                /\ alert.last_trigger = [offender |-> "avg", value |-> a]

\* The samples of frm that break scalar bounds m and M
Violators(frm, m, M) ==
    {i \in 1..Len(frm.data) : Le(frm.data[i], m) \/ Le(M, frm.data[i])}

C6_PredicateTriggers ==
    [][(lastOp'.op = "evaluate" /\ lastOp'.predicate = "True") =>
          /\ lastOp'.ret = "True"
          /\ alert'.trigger_count = alert.trigger_count + 1
          /\ alert'.last_trigger =
                 [offender |-> "cb", value |-> alert.last_trigger.value]
          /\ alert.on_trigger => Len(lastOp'.notified) = 1]_vars

(***************************************************************************)
(* Properties of the Frame methods.                                        *)
(***************************************************************************)
\* C7: crop clamps x1, y1 to >= 0, x2 to <= the frame's cols and y2 to <= the
\* frame's rows; it fails whenever, after clamping, x2 <= x1 or y2 <= y1
\* (x2 = x1 and y2 = y1 included), and otherwise returns a frame of
\* y2 - y1 rows and x2 - x1 cols.
C7_CropFailsOnEmptyRectangle ==
    fop.op = "crop" =>
        LET x1 == Max(0, fop.x1)
            y1 == Max(0, fop.y1)
            x2 == Min(frame.cols, fop.x2)
            y2 == Min(frame.rows, fop.y2)
        IN  IF x2 <= x1 \/ y2 <= y1
            THEN result.kind # "Frame"
            ELSE /\ result.kind = "Frame"
                 /\ result.rows = y2 - y1
                 /\ result.cols = x2 - x1

\* C8: for any frame f, a crop result included, f.crop(0, 0, f.cols, f.rows)
\* returns a frame with the dimensions and the samples of f.
C8_CropFullExtentIsIdentity ==
    (/\ fop.op = "crop"
     /\ fop.x1 = 0
     /\ fop.y1 = 0
     /\ fop.x2 = frame.cols
     /\ fop.y2 = frame.rows) => result = frame

\* C9: for a frame f of any dimensions, replace_outliers_with_average(t)
\* returns a Frame with the rows and cols of f whose i-th sample is the
\* average a of f if |x_i - a| >= t * a, and x_i otherwise.
C9_ReplaceOutliersKeepsShape ==
    (fop.op = "replace_outliers_with_average" /\ Len(frame.data) > 0) =>
        /\ result.kind = "Frame"
        /\ result.rows = frame.rows
        /\ result.cols = frame.cols
        /\ \A a \in {avg(frame.data)} :
               \A i \in 1..Len(frame.data) :
                   result.data[i] =
                       IF Le(Mul(fop.threshold, a), Abs(Sub(frame.data[i], a)))
                       THEN a ELSE frame.data[i]

\* C10: with a threshold above every |x - a| / |a|, the frame returned by
\* replace_outliers_with_average has the samples of the frame it was called
\* on, whatever the sign of the average.
C10_HugeThresholdIsIdentity ==
    (/\ fop.op = "replace_outliers_with_average"
     /\ fop.threshold = Huge
     /\ result.kind = "Frame") => result.data = frame.data

\* C11: on a frame of R >= 1 rows and C >= 1 cols, get_index(row, col),
\* get_row(row) and get_col(col) raise an index error whenever row >= R or
\* col >= C or an index is negative; what they return otherwise is the index
\* row * C + col, the samples of that row, the samples of that column.
C11_RowColBoundsChecked ==
    (/\ fop.op \in {"get_index", "get_row", "get_col"}
     /\ frame.rows >= 1
     /\ frame.cols >= 1) =>
        LET rowOut == fop.op # "get_col" /\ (fop.row < 0 \/ fop.row >= frame.rows)
            colOut == fop.op # "get_row" /\ (fop.col < 0 \/ fop.col >= frame.cols)
        IN  IF rowOut \/ colOut
            THEN result.kind = "IndexError"
            ELSE CASE fop.op = "get_index" ->
                        result = Return("int", <<fop.row * frame.cols + fop.col>>)
                   [] fop.op = "get_row" ->
                        result = Return("list",
                            [k \in 1..frame.cols |->
                                frame.data[fop.row * frame.cols + k]])
                   [] fop.op = "get_col" ->
                        result = Return("list",
                            [k \in 1..frame.rows |->
                                frame.data[(k - 1) * frame.cols + fop.col + 1]])

(***************************************************************************)
(* Properties of the surface search.                                       *)
(***************************************************************************)
\* The mean of the i-th segment of the last call
SegmentMean(i) == avg(slice(sequence, sop.edges[i], sop.edges[i + 1]))

\* The leftmost of the segments with the highest mean
BestSegment ==
    CHOOSE i \in 1..(Len(sop.edges) - 1) :
        /\ \A j \in 1..(Len(sop.edges) - 1) : Le(SegmentMean(j), SegmentMean(i))
        /\ \A j \in 1..(i - 1) : Lt(SegmentMean(j), SegmentMean(i))

\* get_surfaces returned the leftmost segment with the highest mean.
ReturnsBestSegment ==
    sop.ret = Surface(sop.edges[BestSegment], sop.edges[BestSegment + 1],
                      slice(sequence, sop.edges[BestSegment],
                            sop.edges[BestSegment + 1]))

\* Some segment's mean is strictly greater than the minimum of the sequence.
SomeSegmentAboveMin ==
    \E i \in 1..(Len(sop.edges) - 1) : Lt(min(sequence), SegmentMean(i))

\* C16 as stated: given a sequence and strictly increasing edges [0, ..., n],
\* get_surfaces returns (start, end, values) of the segment with the highest
\* arithmetic mean, the leftmost one among segments of equal highest mean.
C16_ReturnsHighestMeanSegment ==
    sop.op = "get_surfaces" => ReturnsBestSegment

\* C16 as amended: the same, for a sequence in which some segment's mean is
\* strictly greater than the minimum of the sequence; on the sequence
\* [0,0,0,10,10,10,0,0,0] with edges [0,3,6,9] that is (3, 6, [10,10,10]).
C16_HighestMeanSegmentAboveMin ==
    /\ (sop.op = "get_surfaces" /\ SomeSegmentAboveMin) => ReturnsBestSegment
    /\ (/\ sop.op = "get_surfaces"
        /\ sequence = Example
        /\ sop.edges = <<0, 3, 6, 9>>) =>
           sop.ret = Surface(3, 6, <<R(10), R(10), R(10)>>)

\* get_surfaces has returned the hot block of the documented sequence.
C16_Witness ==
    /\ sop.op = "get_surfaces"
    /\ sequence = Example
    /\ sop.edges = <<0, 3, 6, 9>>
    /\ sop.ret.start = 3
    /\ sop.ret.end = 6

\* C17: when no segment's mean is strictly greater than the minimum of the
\* sequence, get_surfaces returns (0, len(sequence), [min(sequence)]).
C17_FallbackIsWholeSequence ==
    (sop.op = "get_surfaces" /\ ~SomeSegmentAboveMin) =>
        sop.ret = Surface(0, Len(sequence), <<min(sequence)>>)

\* C19: for every sequence of n >= 2 samples, every penalty and every jump,
\* get_surfaces_edges returns a strictly increasing list of indices whose
\* first element is 0 and whose last element is n.
C19_EdgesCoverSequence ==
    (sop.op = "get_surfaces_edges" /\ Len(sequence) >= 2) =>
        /\ sop.raised = ""
        /\ Len(sop.edges) >= 2
        /\ sop.edges[1] = 0
        /\ sop.edges[Len(sop.edges)] = Len(sequence)
        /\ \A i \in 1..(Len(sop.edges) - 1) : sop.edges[i] < sop.edges[i + 1]

\* The documented sequence has been cut on both sides of its hot block.
C19_Witness ==
    /\ sop.op = "get_surfaces_edges"
    /\ sequence = Example
    /\ sop.jump = 1
    /\ sop.edges = <<0, 3, 6, 9>>

(***************************************************************************)
(* Properties of the search for the hottest spot.                          *)
(***************************************************************************)
\* The sequences of the last calculate_best_coords_to_crop call, their
\* common length, and the best segment get_surfaces finds in each
Batch ==
    IF spot.axis = "rows" THEN iterate_rows(frame)
    ELSE cols_in_range(frame, spot.x1, spot.x2)
BatchLength == IF spot.axis = "rows" THEN frame.cols ELSE frame.rows
BatchCuts == IF spot.axis = "rows" THEN spot.row_cuts ELSE spot.col_cuts
BestOf(k) ==
    get_surfaces(Batch[k].data,
                 get_surfaces_edges(predict_each(Batch, BatchCuts)[k]).data)

\* C18: calculate_best_coords_to_crop over a batch of sequences of common
\* length L (32 for rows, 24 for the columns of a 24x32 frame) returns the
\* least of the best-segment starts that are not 0, or 0 if there is none,
\* and the greatest of the best-segment ends that are not L, or L if there
\* is none.
C18_BestCoordsSkipFullLength ==
    spot.op = "calculate_best_coords_to_crop" =>
        LET starts == {BestOf(k).start : k \in 1..Len(Batch)} \ {0}
            ends == {BestOf(k).end : k \in 1..Len(Batch)} \ {BatchLength}
        IN  /\ spot.ret.kind = "tuple"
            /\ spot.ret.data[1] =
                   IF starts = {} THEN 0
                   ELSE CHOOSE x \in starts : \A y \in starts : x <= y
            /\ spot.ret.data[2] =
                   IF ends = {} THEN BatchLength
                   ELSE CHOOSE x \in ends : \A y \in ends : x >= y

\* C12: for every 24x32 frame, the rectangle (x1, y1, x2, y2) returned by
\* find_hottest_spot has 0 <= x1 < x2 <= 32 and 0 <= y1 < y2 <= 24, whatever
\* segments the segmenter returns for the rows and the columns.
C12_HottestSpotIsCropRectangle ==
    spot.op = "find_hottest_spot" =>
        /\ spot.ret.kind = "tuple"
        /\ 0 <= spot.ret.data[1]
        /\ spot.ret.data[1] < spot.ret.data[3]
        /\ spot.ret.data[3] <= FRAME_COLS
        /\ 0 <= spot.ret.data[2]
        /\ spot.ret.data[2] < spot.ret.data[4]
        /\ spot.ret.data[4] <= FRAME_ROWS

(***************************************************************************)
(* Properties of the config cache.                                         *)
(***************************************************************************)
\* The calls before the j-th that returned a config
ReturnedBefore(j) == {i \in 1..(j - 1) : calls[i].raised = ""}

\* The first of the calls that returned a config
FirstReturned == CHOOSE i \in ReturnedBefore(Len(calls) + 1) :
                     \A k \in ReturnedBefore(Len(calls) + 1) : i <= k

\* C13: after the first call of load_config that returns, every later call,
\* with the same or a different path, returns that same config object
\* without reading any file; before it (also after calls that raised) nothing
\* is cached and the file at the given path is read.
C13_LoadConfigCaches ==
    /\ \A j \in 1..Len(calls) :
           IF ReturnedBefore(j) # {}
           THEN /\ calls[j].raised = ""
                /\ calls[j].opened = <<>>
                /\ calls[j].ret.id = calls[FirstReturned].ret.id
                /\ calls[j].ret.value = calls[FirstReturned].ret.value
           ELSE calls[j].opened = <<calls[j].path>>
    /\ IF ReturnedBefore(Len(calls) + 1) = {}
       THEN _config = NoConfig
       ELSE /\ _config.id = calls[FirstReturned].ret.id
            /\ _config.value = calls[FirstReturned].ret.value

\* A call raised, the next returned a config, and a third call with the
\* other path, whose file cannot be loaded, returned it again.
C13_Witness ==
    /\ Len(calls) = 3
    /\ calls[1].raised # ""
    /\ calls[2].raised = ""
    /\ calls[3].path # calls[2].path
    /\ files[calls[3].path] = "not json"
    /\ calls[3].ret.id = calls[2].ret.id

(***************************************************************************)
(* capture and the alerts of a device.                                     *)
(***************************************************************************)
\* Every sample of the frame f is between the bounds of the threshold
WithinThreshold(f, threshold) ==
    \A k \in 1..Len(f.data) :
        ~Lt(f.data[k], threshold.lo) /\ ~Lt(threshold.hi, f.data[k])

\* The i-th attempt of the last capture made a valid frame
ValidAttempt(i) ==
    /\ cap.finals[i].kind = "Frame"
    /\ WithinThreshold(cap.finals[i], cap.threshold)

\* C14: capture(attempts=N, threshold=(lo, hi)) reads at most N frames; the
\* frame it returns has every sample (after outlier replacement and offset)
\* within lo..hi; a frame with a sample outside is neither returned nor
\* evaluated against the alerts; and None is returned exactly when none of the
\* N attempts made a valid frame.
C14_CaptureReturnsValidFrameOrNone ==
    cap.op = "capture" =>
        /\ Len(cap.finals) <= cap.attempts
        /\ cap.at # 0 =>
               /\ cap.ret = cap.finals[cap.at]
               /\ ValidAttempt(cap.at)
        /\ \A j \in 1..Len(cap.evaluated) :
               ValidAttempt(cap.evaluated[j].attempt)
        /\ cap.ret.kind \in {"Frame", "None"}
        /\ cap.ret.kind = "None" <=>
               /\ cap.at = 0
               /\ \A i \in 1..Len(cap.finals) : ~ValidAttempt(i)

\* C15: the alerts registered on the device are each evaluated exactly once,
\* in the order of their registration, on the frame a capture returns, and on
\* no other frame: a capture that returns no frame has evaluated no alert,
\* also when the evaluation or the callback of an alert raises.
C15_AlertsEvaluatedOnReturnedFrameOnly ==
    cap.op = "capture" =>
        cap.evaluated =
            IF cap.at = 0 THEN <<>>
            ELSE [k \in 1..cap.alerts |-> [alert |-> k, attempt |-> cap.at]]


====
